---- MODULE Spec2Model ----
(***************************************************************************)
(* Model of the Salt runner vault_pki.py: main() verifies a CSR against    *)
(* the requesting minion's FQDN, authenticates to Vault, posts the CSR to  *)
(* the PKI backend and writes the certificate and the full chain back to   *)
(* the minion.                                                             *)
(*                                                                         *)
(* Python values: strings are TLA+ strings, dicts are functions whose      *)
(* DOMAIN is the set of keys, None is a sentinel of the type it stands in  *)
(* for (NoneStr for strings, NoneDict for dicts).                          *)
(***************************************************************************)
EXTENDS Integers, Sequences, FiniteSets, TLC

VARIABLES
    run,           \* run[r]: the locals of invocation r of main(), and its position
    calls,         \* the outbound calls made so far (hvac client, salt LocalClient), in order
    minion_files,  \* files on the minions, as file.write left them: {[fqdn, path, content]}
    id_files       \* the master's file system: absolute path -> content of the user-id files

vars == <<run, calls, minion_files, id_files>>

Runs == {1, 2}

----------------------------------------------------------------------------
(* Module constants, vault_pki.py lines 57-62 *)

CERT_FILENAME == "cert.pem"
FULLCHAIN_FILENAME == "fullchain.pem"
\* '{:d}h'.format(30 * 24)
CERT_VALIDITY_PERIOD == ToString(30 * 24) \o "h"
SALT_MASTER_CONFIG == "/etc/salt/master"

----------------------------------------------------------------------------
(* Python values *)

NoneStr == "None"
NoneDict == [None |-> "None"]

\* dict.get(key, default)
Get(d, key, default) == IF key \in DOMAIN d THEN d[key] ELSE default

\* Python truthiness of an optional string: None and '' are false
Truthy(s) == s # NoneStr /\ s # ""

\* six.u(s): the text of s (on Python 3 six defines u(s) as s)
SixU(s) == s

StartsWith(s, c) == Len(s) >= Len(c) /\ SubSeq(s, 1, Len(c)) = c
EndsWith(s, c) == Len(s) >= Len(c) /\ SubSeq(s, Len(s) - Len(c) + 1, Len(s)) = c

\* os.path.join(a, b) on POSIX for two components
PathJoin(a, b) ==
    IF StartsWith(b, "/") THEN b
    ELSE IF a = "" \/ EndsWith(a, "/") THEN a \o b
    ELSE a \o "/" \o b

\* Mutant: the CA certificate comes first
NewlineJoin_CaFirst(a, b) == b \o "\n" \o a

\* '\n'.join([a, b])
NewlineJoin(a, b) == a \o "\n" \o b

----------------------------------------------------------------------------
(* Inputs of main(): host, csr, path, and the master configuration *)

Hosts == {"web1.example.com", "web2.example.com", "WEB1.example.com"}

\* A CSR in PEM: either text that does not parse, or a request whose subject
\* carries the listed Common Name attributes, in order.
BadPem == [pem_ok |-> FALSE, common_names |-> <<>>]
Csr(names) == [pem_ok |-> TRUE, common_names |-> names]
Csrs ==
    {BadPem, Csr(<<>>), Csr(<<"web1.example.com">>), Csr(<<"web2.example.com">>),
     Csr(<<"web1.example.com", "web2.example.com">>),
     Csr(<<"web1.example.com", "web1.example.com">>)}

DestPaths == {"/etc/tls", "/etc/tls/", ""}

ConfUserIdFile == "/etc/salt/vault-id"
OptionalKeys == {"vault_user_id_file", "pki_path", "validitiy_period"}
KeyValues(k) ==
    CASE k = "vault_user_id_file" -> {ConfUserIdFile}
      [] k = "pki_path" -> {"", "pki/sign/minion"}
      [] k = "validitiy_period" -> {"24h"}

\* The 'vault_pki_runner' section of the master config: url and app_id set,
\* every other key optional.
Configs ==
    UNION {
        { [k \in {"url", "app_id"} \cup K |->
              IF k = "url" THEN "https://vault:8200"
              ELSE IF k = "app_id" THEN "salt-master"
              ELSE f[k]] : f \in {g \in [K -> UNION {KeyValues(k) : k \in OptionalKeys}] :
                                    \A k \in K : g[k] \in KeyValues(k)} }
        : K \in SUBSET OptionalKeys }

----------------------------------------------------------------------------
(* Exceptions that leave main() *)

Exc(kind, msg) == [kind |-> kind, msg |-> msg]
NoExc == Exc("none", "")

----------------------------------------------------------------------------
(* State *)

IdleRun ==
    [pc |-> "idle", fqdn |-> NoneStr, csr |-> BadPem, dest_cert_path |-> NoneStr,
     config |-> NoneDict, vault_conn |-> NoneStr, validity_period |-> NoneStr,
     signing_params |-> NoneDict, pki_path |-> NoneStr, vault_response |-> NoneDict,
     cert_data |-> NoneDict, write_cert |-> NoneStr, write_fullchain |-> NoneStr,
     err |-> NoExc]

HomeDir == "/root"
DefaultUserIdFile == "~/.vault-id"

\* os.path.abspath(os.path.expanduser(source)) for the paths used here
AbsExpandUser(source) ==
    IF StartsWith(source, "~/") THEN HomeDir \o SubSeq(source, 2, Len(source))
    ELSE source

IdFileSystems ==
    UNION {
        [P -> {" 6f1c-user-id\n", "0a77-user-id"}]
        : P \in SUBSET {AbsExpandUser(DefaultUserIdFile), ConfUserIdFile} }

Init ==
    /\ run = [r \in Runs |-> IdleRun]
    /\ calls = <<>>
    /\ minion_files = {}
    /\ id_files \in IdFileSystems

----------------------------------------------------------------------------
(* main(), lines 176-182: read the keyword arguments and the configuration *)

Invoke(r, host, csr, path, config) ==
    /\ run[r].pc = "idle"
    /\ run' = [run EXCEPT ![r] = [IdleRun EXCEPT
                  !.pc = "verify", !.fqdn = host, !.csr = csr,
                  !.dest_cert_path = path, !.config = config]]
    /\ UNCHANGED <<calls, minion_files, id_files>>

Raise(r, kind, msg) ==
    run' = [run EXCEPT ![r].pc = "raised", ![r].err = Exc(kind, msg)]

----------------------------------------------------------------------------
(* _verify_csr_ok, lines 99-118 *)

\* x509.load_pem_x509_csr succeeds
PemParses(csr_pem_data) == csr_pem_data.pem_ok

\* csr.subject.get_attributes_for_oid(NameOID.COMMON_NAME), as their values
CommonNames(csr_pem_data) == csr_pem_data.common_names

\* Mutant: the first Common Name is compared, however many there are
VerifyCsrOk_FirstName(fqdn, csr_pem_data) ==
    LET names == CommonNames(csr_pem_data)
    IN  Len(names) >= 1 /\ SixU(fqdn) = names[1]

\* Mutant: it is enough that one of the Common Names is the host
VerifyCsrOk_AnyName(fqdn, csr_pem_data) ==
    LET names == CommonNames(csr_pem_data)
    IN  \E i \in 1..Len(names) : SixU(fqdn) = names[i]

\* Mutant: a single Common Name is accepted without being compared
VerifyCsrOk_NameCountOnly(fqdn, csr_pem_data) ==
    Len(CommonNames(csr_pem_data)) = 1

VerifyCsrOk(fqdn, csr_pem_data) ==
    LET names == CommonNames(csr_pem_data)
    IN  IF Len(names) = 1
        THEN LET common_name == names[1]
             IN  IF SixU(fqdn) = common_name THEN TRUE ELSE FALSE
        ELSE FALSE

\* Mutant: a CSR that does not verify is reported as a configuration error
VerifyCsr_RaisesConfigError(r) ==
    /\ run[r].pc = "verify"
    /\ IF ~PemParses(run[r].csr)
       THEN Raise(r, "ValueError", "Unable to load request")
       ELSE IF VerifyCsrOk(run[r].fqdn, run[r].csr)
       THEN run' = [run EXCEPT ![r].pc = "connect"]
       ELSE Raise(r, "ConfigError", "CSR missing or invalid, check fqdn.")
    /\ UNCHANGED <<calls, minion_files, id_files>>

\* main(), lines 183 and 206-207
VerifyCsr(r) ==
    /\ run[r].pc = "verify"
    /\ IF ~PemParses(run[r].csr)
       THEN Raise(r, "ValueError", "Unable to load request")
       ELSE IF VerifyCsrOk(run[r].fqdn, run[r].csr)
       THEN run' = [run EXCEPT ![r].pc = "connect"]
       ELSE Raise(r, "SigningError", "CSR missing or invalid, check fqdn.")
    /\ UNCHANGED <<calls, minion_files, id_files>>

----------------------------------------------------------------------------
(* get_user_id, lines 85-96 *)

Whitespace == {" ", "\n", "\t"}

RECURSIVE LStrip(_)
LStrip(s) ==
    IF Len(s) > 0 /\ SubSeq(s, 1, 1) \in Whitespace
    THEN LStrip(SubSeq(s, 2, Len(s)))
    ELSE s

RECURSIVE RStrip(_)
RStrip(s) ==
    IF Len(s) > 0 /\ SubSeq(s, Len(s), Len(s)) \in Whitespace
    THEN RStrip(SubSeq(s, 1, Len(s) - 1))
    ELSE s

\* str.strip()
Strip(s) == RStrip(LStrip(s))

\* os.path.isfile(source)
IsFile(fs, source) == source \in DOMAIN fs

GetUserId(fs, source) ==
    LET abs == AbsExpandUser(source)
    IN  IF IsFile(fs, abs) THEN Strip(fs[abs]) ELSE NoneStr

----------------------------------------------------------------------------
(* _get_vault_connection, lines 121-139, called from main() line 184 *)

\* An outbound call of run r, with its arguments and what it came back with
Call(r, op, args, result) == [run |-> r, op |-> op, args |-> args, result |-> result]

\* What conn.auth_app_id does: it returns, or it raises a VaultError
AuthOutcomes == {"ok", "VaultError"}

\* Mutant: when the configured file yields nothing the default file is tried
ConnUserId_FallsBack(config, fs) ==
    LET user_id_file == Get(config, "vault_user_id_file", NoneStr)
        configured == IF Truthy(user_id_file) THEN GetUserId(fs, user_id_file) ELSE NoneStr
    IN  IF configured # NoneStr THEN configured ELSE GetUserId(fs, DefaultUserIdFile)

\* The user id handed to auth_app_id, lines 129-133
ConnUserId(config, fs) ==
    LET user_id_file == Get(config, "vault_user_id_file", NoneStr)
    IN  IF Truthy(user_id_file)
        THEN GetUserId(fs, user_id_file)
        ELSE GetUserId(fs, DefaultUserIdFile)

\* Mutant: the except clause logs the VaultError and falls through to 'return conn'
GetVaultConnection_ReturnsConn(r, outcome) ==
    /\ run[r].pc = "connect"
    /\ run[r].config # NoneDict
    /\ calls' = Append(calls,
            Call(r, "authenticate",
                 <<Get(run[r].config, "url", NoneStr), Get(run[r].config, "app_id", NoneStr),
                   ConnUserId(run[r].config, id_files)>>, outcome))
    /\ run' = [run EXCEPT ![r].pc = "prepare", ![r].vault_conn = "conn"]
    /\ UNCHANGED <<minion_files, id_files>>

GetVaultConnection(r, outcome) ==
    /\ run[r].pc = "connect"
    /\ LET config == run[r].config
       IN  IF config = NoneDict
           THEN \* config.get on None, line 128: not a VaultError, so not caught
                /\ Raise(r, "AttributeError", "'NoneType' object has no attribute 'get'")
                /\ UNCHANGED calls
           ELSE /\ calls' = Append(calls,
                        Call(r, "authenticate",
                             <<Get(config, "url", NoneStr), Get(config, "app_id", NoneStr),
                               ConnUserId(config, id_files)>>, outcome))
                /\ IF outcome = "ok"
                   THEN run' = [run EXCEPT ![r].pc = "prepare", ![r].vault_conn = "conn"]
                   ELSE \* lines 136-138: the VaultError is logged and None returned
                        run' = [run EXCEPT ![r].pc = "prepare", ![r].vault_conn = NoneStr]
    /\ UNCHANGED <<minion_files, id_files>>

----------------------------------------------------------------------------
(* main(), lines 185-194: the signing parameters and the pki_path check *)

SigningParams(fqdn, csr, validity_period) ==
    [alt_names |-> SixU(fqdn), csr |-> csr, common_name |-> SixU(fqdn),
     format |-> "pem", ttl |-> validity_period]

\* Mutant: the configured period is not looked up
ValidityPeriod_Default(config) == CERT_VALIDITY_PERIOD

ValidityPeriod(config) == Get(config, "validitiy_period", CERT_VALIDITY_PERIOD)

\* Mutant: the missing session is noticed before pki_path is looked at
Prepare_ChecksSessionFirst(r) ==
    /\ run[r].pc = "prepare"
    /\ LET validity_period == ValidityPeriod(run[r].config)
           signing_params == SigningParams(run[r].fqdn, run[r].csr, validity_period)
           pki_path == Get(run[r].config, "pki_path", NoneStr)
       IN  IF run[r].vault_conn = NoneStr
           THEN Raise(r, "SigningError", "No connection to vault!")
           ELSE run' = [run EXCEPT
                    ![r].validity_period = validity_period,
                    ![r].signing_params = signing_params,
                    ![r].pki_path = pki_path,
                    ![r].pc = IF ~Truthy(pki_path) THEN "raised" ELSE "post",
                    ![r].err = IF ~Truthy(pki_path)
                               THEN Exc("ConfigError", "Missing required parameter \"pki_path\"")
                               ELSE @]
    /\ UNCHANGED <<calls, minion_files, id_files>>

Prepare(r) ==
    /\ run[r].pc = "prepare"
    /\ LET validity_period == ValidityPeriod(run[r].config)
           signing_params == SigningParams(run[r].fqdn, run[r].csr, validity_period)
           pki_path == Get(run[r].config, "pki_path", NoneStr)
       IN  run' = [run EXCEPT
                ![r].validity_period = validity_period,
                ![r].signing_params = signing_params,
                ![r].pki_path = pki_path,
                ![r].pc = IF ~Truthy(pki_path) THEN "raised" ELSE "post",
                ![r].err = IF ~Truthy(pki_path)
                           THEN Exc("ConfigError", "Missing required parameter \"pki_path\"")
                           ELSE @]
    /\ UNCHANGED <<calls, minion_files, id_files>>

----------------------------------------------------------------------------
(* main(), lines 195-199: post the signing request *)

Certificates == {"LEAF", "LEAF2"}
IssuingCAs == {"CA"}

\* The JSON bodies Vault may answer with: the signed certificate, or a body
\* that lacks 'data' or one of the two fields.
Bodies ==
    {[data |-> [certificate |-> c, issuing_ca |-> i]] : c \in Certificates, i \in IssuingCAs}
    \cup {[data |-> [certificate |-> c]] : c \in Certificates}
    \cup {[data |-> [issuing_ca |-> i]] : i \in IssuingCAs}
    \cup {[data |-> [serial_number |-> "17:a2"]], [warnings |-> "no data"]}

Response(is_json, body) == [is_json |-> is_json, body |-> body]
NoResponse == Response(FALSE, NoneDict)

VaultErrorDetails == {"permission denied", "unknown role: minion"}

\* What vault_conn._post does: it returns a response (whose body may not even
\* be JSON), or it raises a VaultError carrying Vault's error detail.
PostOutcomes ==
    {[kind |-> "response", detail |-> "", response |-> Response(TRUE, b)] : b \in Bodies}
    \cup {[kind |-> "response", detail |-> "", response |-> NoResponse]}
    \cup {[kind |-> "VaultError", detail |-> d, response |-> NoResponse] : d \in VaultErrorDetails}

\* Mutant: the VaultError is logged and not raised again
Post_SwallowsVaultError(r, outcome) ==
    /\ run[r].pc = "post"
    /\ run[r].vault_conn # NoneStr
    /\ calls' = Append(calls,
            Call(r, "submit", <<run[r].pki_path, run[r].signing_params>>, outcome))
    /\ run' = [run EXCEPT ![r].pc = "extract", ![r].vault_response = outcome.response]
    /\ UNCHANGED <<minion_files, id_files>>

\* Mutant: a VaultError makes the request go out again
Post_Retries(r, outcome) ==
    /\ run[r].pc = "post"
    /\ run[r].vault_conn # NoneStr
    /\ calls' = Append(calls,
            Call(r, "submit", <<run[r].pki_path, run[r].signing_params>>, outcome))
    /\ IF outcome.kind = "response"
       THEN run' = [run EXCEPT ![r].pc = "extract", ![r].vault_response = outcome.response]
       ELSE UNCHANGED run
    /\ UNCHANGED <<minion_files, id_files>>

Post(r, outcome) ==
    /\ run[r].pc = "post"
    /\ IF run[r].vault_conn = NoneStr
       THEN \* None._post, line 196: an AttributeError, which the except clause does not catch
            /\ Raise(r, "AttributeError", "'NoneType' object has no attribute '_post'")
            /\ UNCHANGED calls
       ELSE /\ calls' = Append(calls,
                    Call(r, "submit", <<run[r].pki_path, run[r].signing_params>>, outcome))
            /\ IF outcome.kind = "response"
               THEN run' = [run EXCEPT ![r].pc = "extract",
                                       ![r].vault_response = outcome.response]
               ELSE \* lines 197-199: the VaultError is logged, SigningError raised
                    Raise(r, "SigningError", "Error signing from vault!")
    /\ UNCHANGED <<minion_files, id_files>>

\* main(), line 200: cert_data = vault_response.json()['data']
ExtractData(r) ==
    /\ run[r].pc = "extract"
    /\ LET resp == run[r].vault_response
       IN  IF ~resp.is_json
           THEN Raise(r, "ValueError", "No JSON object could be decoded")
           ELSE IF "data" \notin DOMAIN resp.body
           THEN Raise(r, "KeyError", "data")
           ELSE run' = [run EXCEPT ![r].pc = "write_cert", ![r].cert_data = resp.body["data"]]
    /\ UNCHANGED <<calls, minion_files, id_files>>

----------------------------------------------------------------------------
(* _write_certs_to_minion, lines 142-164, called from main() line 201 *)

\* What client.cmd(fqdn, 'file.write', ...) returns: a report that the minion
\* wrote the file, or one that it did not (the return value is the only
\* outcome the code provides for, line 163).
WriteOutcomes == {"written", "failed"}

FileWrite(files, fqdn, path, content, outcome) ==
    IF outcome = "written"
    THEN {f \in files : ~(f.fqdn = fqdn /\ f.path = path)}
         \cup {[fqdn |-> fqdn, path |-> path, content |-> content]}
    ELSE files

\* Mutant: the full chain is built only after the certificate is written
WriteCert_ChainBuiltLater(r, outcome) ==
    /\ run[r].pc = "write_cert"
    /\ "certificate" \in DOMAIN run[r].cert_data
    /\ LET cert_path == PathJoin(run[r].dest_cert_path, CERT_FILENAME)
           cert == run[r].cert_data["certificate"]
       IN  /\ calls' = Append(calls,
                   Call(r, "writeFile", <<run[r].fqdn, cert_path, cert>>, outcome))
           /\ minion_files' = FileWrite(minion_files, run[r].fqdn, cert_path, cert, outcome)
           /\ run' = [run EXCEPT ![r].pc = "write_fullchain", ![r].write_cert = outcome]
    /\ UNCHANGED id_files

\* lines 148-157: the two paths, the two contents, and the first write
WriteCert(r, outcome) ==
    /\ run[r].pc = "write_cert"
    /\ LET cert_data == run[r].cert_data
           cert_path == PathJoin(run[r].dest_cert_path, CERT_FILENAME)
       IN  IF "certificate" \notin DOMAIN cert_data
           THEN /\ Raise(r, "KeyError", "certificate")
                /\ UNCHANGED <<calls, minion_files>>
           ELSE IF "issuing_ca" \notin DOMAIN cert_data
           THEN /\ Raise(r, "KeyError", "issuing_ca")
                /\ UNCHANGED <<calls, minion_files>>
           ELSE LET cert == cert_data["certificate"]
                IN  /\ calls' = Append(calls,
                            Call(r, "writeFile", <<run[r].fqdn, cert_path, cert>>, outcome))
                    /\ minion_files' =
                            FileWrite(minion_files, run[r].fqdn, cert_path, cert, outcome)
                    /\ run' = [run EXCEPT ![r].pc = "write_fullchain",
                                          ![r].write_cert = outcome]
    /\ UNCHANGED id_files

\* Mutant: the response data is kept in a module-level variable, so the full
\* chain is built from the latest complete response any run has received
WriteFullchain_SharedCertData(r, outcome) ==
    /\ run[r].pc = "write_fullchain"
    /\ LET answers == SelectSeq(calls, LAMBDA c :
                          /\ c.op = "submit"
                          /\ c.result.kind = "response"
                          /\ c.result.response.is_json
                          /\ "data" \in DOMAIN c.result.response.body
                          /\ {"certificate", "issuing_ca"} \subseteq
                                 DOMAIN c.result.response.body["data"])
           cert_data == answers[Len(answers)].result.response.body["data"]
           fullchain_path == PathJoin(run[r].dest_cert_path, FULLCHAIN_FILENAME)
           fullchain == NewlineJoin(cert_data["certificate"], cert_data["issuing_ca"])
       IN  /\ calls' = Append(calls,
                   Call(r, "writeFile", <<run[r].fqdn, fullchain_path, fullchain>>, outcome))
           /\ minion_files' =
                   FileWrite(minion_files, run[r].fqdn, fullchain_path, fullchain, outcome)
           /\ run' = [run EXCEPT ![r].pc = "finish", ![r].write_fullchain = outcome]
    /\ UNCHANGED id_files

\* lines 158-162: the second write
WriteFullchain(r, outcome) ==
    /\ run[r].pc = "write_fullchain"
    /\ LET cert_data == run[r].cert_data
           fullchain_path == PathJoin(run[r].dest_cert_path, FULLCHAIN_FILENAME)
           fullchain == NewlineJoin(cert_data["certificate"], cert_data["issuing_ca"])
       IN  /\ calls' = Append(calls,
                   Call(r, "writeFile", <<run[r].fqdn, fullchain_path, fullchain>>, outcome))
           /\ minion_files' =
                   FileWrite(minion_files, run[r].fqdn, fullchain_path, fullchain, outcome)
           /\ run' = [run EXCEPT ![r].pc = "finish", ![r].write_fullchain = outcome]
    /\ UNCHANGED id_files

\* line 164: the value _write_certs_to_minion returns
WriteOk(write_cert, write_fullchain) == TRUE

\* Mutant: a write the minion reports as failed is raised to the caller
Finish_RaisesOnFailedWrite(r) ==
    /\ run[r].pc = "finish"
    /\ IF run[r].write_cert = "written" /\ run[r].write_fullchain = "written"
       THEN run' = [run EXCEPT ![r].pc = "returned"]
       ELSE Raise(r, "DeliveryError", "Error writing cert to minion!")
    /\ UNCHANGED <<calls, minion_files, id_files>>

\* Mutant: main waits for a write the minion reported as failed to succeed
Finish_WaitsForWrites(r) ==
    /\ run[r].pc = "finish"
    /\ IF run[r].write_cert = "written" /\ run[r].write_fullchain = "written"
       THEN run' = [run EXCEPT ![r].pc = "returned"]
       ELSE UNCHANGED run
    /\ UNCHANGED <<calls, minion_files, id_files>>

\* main(), lines 201-205: both branches log, then main returns
Finish(r) ==
    /\ run[r].pc = "finish"
    /\ LET write_ok == WriteOk(run[r].write_cert, run[r].write_fullchain)
       IN  run' = [run EXCEPT ![r].pc = "returned"]
    /\ UNCHANGED <<calls, minion_files, id_files>>

----------------------------------------------------------------------------

Next ==
    \/ \E host \in Hosts, csr \in Csrs, path \in DestPaths,
          config \in Configs \cup {NoneDict} : Invoke(1, host, csr, path, config)
    \/ \E r \in Runs : VerifyCsr(r)
    \/ \E r \in Runs, outcome \in AuthOutcomes : GetVaultConnection(r, outcome)
    \/ \E r \in Runs : Prepare(r)
    \/ \E r \in Runs, outcome \in PostOutcomes : Post(r, outcome)
    \/ \E r \in Runs : ExtractData(r)
    \/ \E r \in Runs, outcome \in WriteOutcomes : WriteCert(r, outcome)
    \/ \E r \in Runs, outcome \in WriteOutcomes : WriteFullchain(r, outcome)
    \/ \E r \in Runs : Finish(r)

Spec == Init /\ [][Next]_vars

\* One step of invocation r after its start. main is straight-line code: once
\* invoked it goes on as long as each outbound call comes back.
RunStep(r) ==
    \/ VerifyCsr(r)
    \/ \E outcome \in AuthOutcomes : GetVaultConnection(r, outcome)
    \/ Prepare(r)
    \/ \E outcome \in PostOutcomes : Post(r, outcome)
    \/ ExtractData(r)
    \/ \E outcome \in WriteOutcomes : WriteCert(r, outcome)
    \/ \E outcome \in WriteOutcomes : WriteFullchain(r, outcome)
    \/ Finish(r)

FairSpec == Spec /\ \A r \in Runs : WF_vars(RunStep(r))

----------------------------------------------------------------------------
(* Two invocations of main() at once, for two different minions: each has  *)
(* its own keyword arguments and its own copy of the configuration; the    *)
(* Vault and the minions answer each call on its own.                      *)

ConcHost(r) == IF r = 1 THEN "web1.example.com" ELSE "web2.example.com"
ConcCsrs == {Csr(<<"web1.example.com">>), Csr(<<"web2.example.com">>)}
ConcPath == "/etc/tls"
ConcConfigs ==
    {c \in Configs : DOMAIN c \in {{"url", "app_id", "vault_user_id_file"},
                                   {"url", "app_id", "pki_path"}}
                     /\ Get(c, "pki_path", "pki/sign/minion") = "pki/sign/minion"}
ConcPostOutcomes ==
    {o \in PostOutcomes :
        \/ o.kind = "VaultError" /\ o.detail = "permission denied"
        \/ o.kind = "response" /\ o.response.is_json
              /\ o.response.body \in
                    {[data |-> [certificate |-> "LEAF", issuing_ca |-> "CA"]],
                     [data |-> [certificate |-> "LEAF2", issuing_ca |-> "CA"]],
                     [data |-> [certificate |-> "LEAF"]]}}

InitConc ==
    /\ run = [r \in Runs |-> IdleRun]
    /\ calls = <<>>
    /\ minion_files = {}
    /\ id_files = [p \in {ConfUserIdFile} |-> "0a77-user-id"]

NextConc ==
    \/ \E r \in Runs, csr \in ConcCsrs, config \in ConcConfigs :
          Invoke(r, ConcHost(r), csr, ConcPath, config)
    \/ \E r \in Runs : VerifyCsr(r)
    \/ \E r \in Runs, outcome \in AuthOutcomes : GetVaultConnection(r, outcome)
    \/ \E r \in Runs : Prepare(r)
    \/ \E r \in Runs, outcome \in ConcPostOutcomes : Post(r, outcome)
    \/ \E r \in Runs : ExtractData(r)
    \/ \E r \in Runs, outcome \in WriteOutcomes : WriteCert(r, outcome)
    \/ \E r \in Runs, outcome \in WriteOutcomes : WriteFullchain(r, outcome)
    \/ \E r \in Runs : Finish(r)

SpecConc == InitConc /\ [][NextConc]_vars

----------------------------------------------------------------------------
(* Vocabulary of the properties *)

Started(r) == run[r].pc # "idle"
Raised(r) == run[r].pc = "raised"
Returned(r) == run[r].pc = "returned"

\* The outbound calls of run r, in the order they were made
ExternalCalls(r) == SelectSeq(calls, LAMBDA c : c.run = r)
CallsBy(r, op) == SelectSeq(calls, LAMBDA c : c.run = r /\ c.op = op)
SignerCalls(r) == SelectSeq(calls, LAMBDA c : c.run = r /\ c.op \in {"authenticate", "submit"})

\* The CSR of run r does not parse, or its subject has no Common Name, more
\* than one, or one that is not the host
CsrInvalid(r) ==
    \/ ~run[r].csr.pem_ok
    \/ Len(run[r].csr.common_names) # 1
    \/ run[r].csr.common_names[1] # run[r].fqdn

----------------------------------------------------------------------------
(* C1: a run whose CSR does not parse or does not verify (no Common Name,  *)
(* several, or one that differs from host) ends with an error raised; at   *)
(* no point of it has the Signer (authenticate, submit) or the             *)
(* NodeExecutor (writeFile) been called.                                   *)
C1_InvalidCsrMakesNoCall ==
    \A r \in Runs :
        Started(r) /\ CsrInvalid(r) =>
            /\ Len(ExternalCalls(r)) = 0
            /\ run[r].pc \in {"verify", "raised"}
            /\ Raised(r) => run[r].err.kind \in {"ValueError", "SigningError"}

\* A CSR with two Common Names, the first of them the host, was refused
C1_Witness ==
    \E r \in Runs :
        /\ Raised(r)
        /\ run[r].csr.pem_ok
        /\ Len(run[r].csr.common_names) = 2
        /\ run[r].csr.common_names[1] = run[r].fqdn

----------------------------------------------------------------------------
\* The CSR of run r parses and its only Common Name is the host
CsrValid(r) == Started(r) /\ ~CsrInvalid(r)

\* The configuration of run r is there and has no pki_path
PkiPathMissing(r) ==
    Started(r) /\ run[r].config # NoneDict /\ "pki_path" \notin DOMAIN run[r].config

\* The configuration of run r has a usable pki_path
PkiPathConfigured(r) ==
    /\ Started(r) /\ run[r].config # NoneDict
    /\ "pki_path" \in DOMAIN run[r].config /\ run[r].config["pki_path"] # ""

\* Run r called authenticate and the call failed
SessionFailed(r) ==
    \E i \in 1..Len(calls) :
        calls[i].run = r /\ calls[i].op = "authenticate" /\ calls[i].result # "ok"

(* C2: a run whose configuration lacks pki_path aborts with ConfigError    *)
(* before any network call: it makes no Signer call (authenticate,         *)
(* submit) and no writeFile call. Stated for the runs whose CSR is valid,  *)
(* where the check of pki_path is reached.                                 *)
C2_MissingPkiPathMakesNoCall ==
    \A r \in Runs :
        PkiPathMissing(r) /\ CsrValid(r) =>
            /\ Len(ExternalCalls(r)) = 0
            /\ Raised(r) => run[r].err.kind = "ConfigError"

(* C3: when session establishment fails, the run submits no signing        *)
(* request and never invokes the Delivery Agent: it makes no submit and    *)
(* no writeFile call, and it gets no further than the signing step.        *)
C3_NoSessionNoSubmitNoDelivery ==
    \A r \in Runs :
        SessionFailed(r) =>
            /\ Len(CallsBy(r, "submit")) = 0
            /\ Len(CallsBy(r, "writeFile")) = 0
            /\ run[r].pc \in {"prepare", "post", "raised"}

\* A run with pki_path configured whose authentication failed has ended
C3_Witness ==
    \E r \in Runs : SessionFailed(r) /\ PkiPathConfigured(r) /\ Raised(r)

(* C4: with a valid CSR and pki_path configured, a run whose session       *)
(* establishment fails raises AuthError or SigningError and no other kind. *)
C4_SessionFailureIsClassified ==
    \A r \in Runs :
        CsrValid(r) /\ PkiPathConfigured(r) /\ SessionFailed(r) /\ Raised(r) =>
            run[r].err.kind \in {"AuthError", "SigningError"}

----------------------------------------------------------------------------
\* Run r submitted its request and Vault answered with an error
SubmitRejected(r) ==
    \E i \in 1..Len(calls) :
        calls[i].run = r /\ calls[i].op = "submit" /\ calls[i].result.kind = "VaultError"

\* The response is JSON with a data payload holding both fields
Complete(response) ==
    /\ response.is_json
    /\ "data" \in DOMAIN response.body
    /\ {"certificate", "issuing_ca"} \subseteq DOMAIN response.body["data"]

\* Run r submitted its request and Vault answered with a response
SubmitAnswered(r) ==
    \E i \in 1..Len(calls) :
        calls[i].run = r /\ calls[i].op = "submit" /\ calls[i].result.kind = "response"

\* The response run r got from its submit call
AnswerOf(r) == CallsBy(r, "submit")[1].result.response

\* Signing succeeded for run r, with certificate and issuing_ca
SignedOk(r) == SubmitAnswered(r) /\ Complete(AnswerOf(r))

(* C5: when the signing authority rejects or fails the submitted request,  *)
(* the run ends with SigningError and no writeFile call has been made.     *)
C5_RejectedRequestIsSigningError ==
    \A r \in Runs :
        SubmitRejected(r) =>
            /\ Raised(r)
            /\ run[r].err.kind = "SigningError"
            /\ Len(CallsBy(r, "writeFile")) = 0

C5_Witness ==
    \E r \in Runs : SubmitRejected(r) /\ Raised(r)

----------------------------------------------------------------------------
\* What the two target paths are for the destination paths of the model
CertPathFor(path) ==
    CASE path = "/etc/tls" -> "/etc/tls/cert.pem"
      [] path = "/etc/tls/" -> "/etc/tls/cert.pem"
      [] path = "" -> "cert.pem"

FullchainPathFor(path) ==
    CASE path = "/etc/tls" -> "/etc/tls/fullchain.pem"
      [] path = "/etc/tls/" -> "/etc/tls/fullchain.pem"
      [] path = "" -> "fullchain.pem"

(* C6: when signing succeeds with certificate L and issuing_ca C, the      *)
(* Delivery Agent makes exactly two writeFile calls, both to the node      *)
(* named by host: first path joined with cert.pem with content L, then     *)
(* path joined with fullchain.pem with content L, a newline, C. The full   *)
(* chain depends on the bundle alone. Where the minion reports a file      *)
(* written, that file has that content.                                    *)
C6_TwoWritesCertThenFullchain ==
    \A r \in Runs :
        SignedOk(r) =>
            LET w == CallsBy(r, "writeFile")
                L == AnswerOf(r).body["data"]["certificate"]
                C == AnswerOf(r).body["data"]["issuing_ca"]
                cert_file == <<run[r].fqdn, CertPathFor(run[r].dest_cert_path), L>>
                chain_file == <<run[r].fqdn, FullchainPathFor(run[r].dest_cert_path),
                                L \o "\n" \o C>>
            IN  /\ Len(w) <= 2
                /\ Len(w) >= 1 => w[1].args = cert_file
                /\ Len(w) = 2 => w[2].args = chain_file
                /\ run[r].pc = "write_fullchain" => Len(w) = 1
                /\ run[r].pc \in {"finish", "returned"} => Len(w) = 2
                /\ ~Raised(r)
                /\ Len(w) = 2 /\ w[2].result = "written" =>
                       [fqdn |-> chain_file[1], path |-> chain_file[2],
                        content |-> chain_file[3]] \in minion_files

C6_Witness ==
    \E r \in Runs :
        /\ SignedOk(r) /\ Returned(r)
        /\ run[r].dest_cert_path = "/etc/tls"
        /\ AnswerOf(r).body["data"]["certificate"] = "LEAF"
        /\ Len(CallsBy(r, "writeFile")) = 2
        /\ [fqdn |-> run[r].fqdn, path |-> "/etc/tls/fullchain.pem",
            content |-> "LEAF\nCA"] \in minion_files

(* C7: once signing has succeeded, the run is delivered whatever the node  *)
(* executor reports for the two writes: it never raises, and from the      *)
(* point where both writes have come back main can return and does         *)
(* nothing else.                                                           *)
C7_DeliveredWhateverWritesReport ==
    /\ [](\A r \in Runs :
            SignedOk(r) =>
                /\ ~Raised(r)
                /\ run[r].err = NoExc
                /\ run[r].pc = "finish" => ENABLED Finish(r))
    /\ [][\A r \in Runs :
            run[r].pc = "finish" /\ run'[r] # run[r] => run'[r].pc = "returned"]_vars

\* main has returned although the minion reported both writes as failed
C7_Witness ==
    \E r \in Runs :
        /\ Returned(r)
        /\ run[r].write_cert = "failed"
        /\ run[r].write_fullchain = "failed"

----------------------------------------------------------------------------
Terminal(r) == Raised(r) \/ Returned(r)

(* C8: no partial certificate state is written. A writeFile call has been  *)
(* made only if the signing call returned a response with both a           *)
(* certificate and an issuing_ca (a response without the data payload or   *)
(* without either field leads to no writeFile call), and in every          *)
(* terminal state the writes of cert.pem and fullchain.pem have both been  *)
(* made or neither has. A write is the writeFile call: what the executor   *)
(* reports for it is not looked at.                                        *)
C8_NoPartialCertificateState ==
    \A r \in Runs :
        LET w == CallsBy(r, "writeFile")
        IN  /\ Len(w) > 0 => SignedOk(r)
            /\ Terminal(r) => Len(w) \in {0, 2}
            /\ Terminal(r) /\ Len(w) = 2 =>
                   /\ EndsWith(w[1].args[2], CERT_FILENAME)
                   /\ EndsWith(w[2].args[2], FULLCHAIN_FILENAME)

\* A response with a certificate and no issuing_ca has ended the run
C8_Witness ==
    \E r \in Runs :
        /\ Raised(r)
        /\ SubmitAnswered(r)
        /\ AnswerOf(r).is_json
        /\ "data" \in DOMAIN AnswerOf(r).body
        /\ DOMAIN AnswerOf(r).body["data"] = {"certificate"}
        /\ Len(CallsBy(r, "writeFile")) = 0

(* C9: any backend-reported error on the signing submission, a malformed   *)
(* response (one without the data payload holding certificate and          *)
(* issuing_ca) included, is classified as SigningError: the run ends with  *)
(* SigningError and no other kind of error leaves the signing step.        *)
(* The malformed responses taken here are JSON bodies that lack 'data' or  *)
(* one of the two fields.                                                  *)
C9_MalformedResponseIsSigningError ==
    \A r \in Runs :
        /\ \/ SubmitRejected(r)
           \/ SubmitAnswered(r) /\ AnswerOf(r).is_json /\ ~Complete(AnswerOf(r))
        /\ Raised(r)
        => run[r].err.kind = "SigningError"

----------------------------------------------------------------------------
\* How far main has got
Rank(pc) ==
    CASE pc = "idle" -> 0
      [] pc = "verify" -> 1
      [] pc = "connect" -> 2
      [] pc = "prepare" -> 3
      [] pc = "post" -> 4
      [] pc = "extract" -> 5
      [] pc = "write_cert" -> 6
      [] pc = "write_fullchain" -> 7
      [] pc = "finish" -> 8
      [] pc \in {"returned", "raised"} -> 9

(* C10: no step is retried within one invocation. Every step of a run      *)
(* moves it forward, so validation and every other stage happen at most    *)
(* once; authenticate is called at most once, the request is submitted at  *)
(* most once, writeFile is called at most twice, once per file; and once   *)
(* the run has failed it makes no further call.                            *)
C10_NoStepIsRetried ==
    /\ [](\A r \in Runs :
            LET w == CallsBy(r, "writeFile")
            IN  /\ Len(CallsBy(r, "authenticate")) <= 1
                /\ Len(CallsBy(r, "submit")) <= 1
                /\ Len(w) <= 2
                /\ Len(w) = 2 => w[1].args[2] # w[2].args[2])
    /\ [][\A r \in Runs :
            /\ run'[r] # run[r] => Rank(run'[r].pc) > Rank(run[r].pc)
            /\ ExternalCalls(r)' # ExternalCalls(r) => run'[r] # run[r]
            /\ Raised(r) => ExternalCalls(r)' = ExternalCalls(r)]_vars

\* A run has failed at the signing step, after one authenticate and one submit
C10_Witness ==
    \E r \in Runs :
        /\ Raised(r)
        /\ SubmitRejected(r)
        /\ Len(CallsBy(r, "authenticate")) = 1
        /\ Len(CallsBy(r, "submit")) = 1


----------------------------------------------------------------------------
\* _verify_csr_ok has returned for run r, and what it returned: main goes on
\* to the Vault connection on True and raises the CSR error on False
CsrRefused(r) ==
    Raised(r) /\ run[r].err = Exc("SigningError", "CSR missing or invalid, check fqdn.")
CsrAccepted(r) == Rank(run[r].pc) >= 2 /\ ~CsrRefused(r)

(* C11: for a CSR that parses, _verify_csr_ok returns true if and only if  *)
(* the subject has exactly one Common Name and it equals the identity      *)
(* exactly, case included; it returns false for no Common Name, for more   *)
(* than one (even when one of them is the identity) and for a mismatch.    *)
C11_VerifyIffSingleMatchingName ==
    \A r \in Runs :
        run[r].csr.pem_ok /\ Rank(run[r].pc) >= 2 =>
            LET names == run[r].csr.common_names
            IN  /\ CsrAccepted(r) <=> (Len(names) = 1 /\ names[1] = run[r].fqdn)
                /\ CsrRefused(r) <=> (Len(names) = 0 \/ Len(names) > 1
                                         \/ names[1] # run[r].fqdn)

\* The identity differs from the only Common Name in case alone, and the CSR
\* was refused
C11_Witness ==
    \E r \in Runs :
        /\ CsrRefused(r)
        /\ run[r].fqdn = "WEB1.example.com"
        /\ run[r].csr.common_names = <<"web1.example.com">>

(* C12: every signing request main submits has alt_names = host,           *)
(* common_name = host, csr = the CSR given, format = 'pem', and ttl = the   *)
(* validity period of the configuration when one is configured, '720h'     *)
(* otherwise.                                                              *)
C12_SigningRequestPayload ==
    \A i \in 1..Len(calls) :
        calls[i].op = "submit" =>
            LET r == calls[i].run
                payload == calls[i].args[2]
            IN  /\ DOMAIN payload = {"alt_names", "common_name", "csr", "format", "ttl"}
                /\ payload.alt_names = run[r].fqdn
                /\ payload.common_name = run[r].fqdn
                /\ payload.csr = run[r].csr
                /\ payload.format = "pem"
                /\ payload.ttl = IF "validitiy_period" \in DOMAIN run[r].config
                                 THEN run[r].config["validitiy_period"]
                                 ELSE "720h"
                /\ calls[i].args[1] = run[r].config["pki_path"]

\* A request went out with the configured period
C12_Witness ==
    \E i \in 1..Len(calls) :
        /\ calls[i].op = "submit"
        /\ calls[i].args[2].ttl = "24h"
        /\ calls[i].args[2].common_name = "web2.example.com"


----------------------------------------------------------------------------
\* The CSR of run r parses and does not verify
CsrMismatch(r) == Started(r) /\ run[r].csr.pem_ok /\ CsrInvalid(r)

----------------------------------------------------------------------------
\* s occurs in t
RECURSIVE Contains(_, _)
Contains(t, s) ==
    IF Len(t) < Len(s) THEN FALSE
    ELSE IF SubSeq(t, 1, Len(s)) = s THEN TRUE
    ELSE Contains(SubSeq(t, 2, Len(t)), s)

\* The detail of the VaultError that answered the request of run r
RejectionDetail(r) == CallsBy(r, "submit")[1].result.detail

(* C14: the SigningError raised when the signing authority reports an      *)
(* error carries the backend's error detail in its message: what the       *)
(* caller sees depends on the detail and is not a constant.                *)
C14_SigningErrorCarriesDetail ==
    \A r \in Runs :
        Raised(r) /\ SubmitRejected(r) =>
            /\ run[r].err.kind = "SigningError"
            /\ Contains(run[r].err.msg, RejectionDetail(r))


----------------------------------------------------------------------------
\* How a run must end, given its own arguments and configuration and the
\* answers to its own calls and nothing else: the kind of the error raised,
\* or "none" for a normal return. It is what the run does when it runs alone.
OutcomeAlone(r) ==
    IF ~run[r].csr.pem_ok THEN "ValueError"
    ELSE IF CsrInvalid(r) THEN "SigningError"
    ELSE IF run[r].config = NoneDict THEN "AttributeError"
    ELSE IF ~PkiPathConfigured(r) THEN "ConfigError"
    ELSE IF SessionFailed(r) THEN "AttributeError"
    ELSE IF SubmitRejected(r) THEN "SigningError"
    ELSE IF ~AnswerOf(r).is_json THEN "ValueError"
    ELSE IF ~Complete(AnswerOf(r)) THEN "KeyError"
    ELSE "none"

\* The call was built from the arguments, the configuration and the signer
\* response of the run that made it
OwnCall(c) ==
    LET r == c.run
    IN  CASE c.op = "authenticate" ->
                /\ c.args[1] = run[r].config["url"]
                /\ c.args[2] = run[r].config["app_id"]
          [] c.op = "submit" ->
                /\ c.args[1] = run[r].config["pki_path"]
                /\ c.args[2].common_name = run[r].fqdn
                /\ c.args[2].alt_names = run[r].fqdn
                /\ c.args[2].csr = run[r].csr
          [] c.op = "writeFile" ->
                /\ SignedOk(r)
                /\ c.args[1] = run[r].fqdn
                /\ StartsWith(c.args[2], run[r].dest_cert_path)
                /\ c.args[3] \in
                      {AnswerOf(r).body["data"]["certificate"],
                       AnswerOf(r).body["data"]["certificate"] \o "\n"
                          \o AnswerOf(r).body["data"]["issuing_ca"]}

(* C15: concurrent invocations of main for different requesting            *)
(* identities share no mutable state. Under every interleaving of two      *)
(* runs, each run ends as it would alone; every authenticate, submit and   *)
(* writeFile call of a run is built from that run's own host, CSR, path,   *)
(* configuration and signer response; every file on a minion was written   *)
(* by the run for that minion; and a step of one run leaves the locals of  *)
(* the other untouched.                                                    *)
C15_RunsDoNotInterfere ==
    /\ [](\A r \in Runs :
            /\ Raised(r) => run[r].err.kind = OutcomeAlone(r)
            /\ Returned(r) => OutcomeAlone(r) = "none")
    /\ [](\A i \in 1..Len(calls) : OwnCall(calls[i]))
    /\ [](\A f \in minion_files :
            \E i \in 1..Len(calls) :
                /\ calls[i].op = "writeFile" /\ calls[i].result = "written"
                /\ calls[i].args = <<f.fqdn, f.path, f.content>>
                /\ f.fqdn = run[calls[i].run].fqdn)
    /\ [][\A r, q \in Runs : r # q /\ run'[r] # run[r] => run'[q] = run[q]]_vars

\* Both runs have delivered, with different certificates, and the second
\* run's request was answered before the first run wrote its files
C15_Witness ==
    /\ \A r \in Runs : Returned(r) /\ SignedOk(r)
    /\ AnswerOf(1).body["data"]["certificate"] # AnswerOf(2).body["data"]["certificate"]
    /\ run[1].fqdn # run[2].fqdn
    /\ \E i, j \in 1..Len(calls) :
          /\ i < j
          /\ calls[i].run = 2 /\ calls[i].op = "submit"
          /\ calls[j].run = 1 /\ calls[j].op = "writeFile"


----------------------------------------------------------------------------
(* C16: provided every outbound call (authenticate, submit, writeFile)     *)
(* comes back or fails, every invocation of main reaches a terminal state, *)
(* and exactly one: Delivered (main returns, no error) or Failed (an error *)
(* is raised). A terminal state is absorbing: after it the run makes no    *)
(* call and its state does not change.                                     *)
C16_EveryRunEndsOnce ==
    /\ \A r \in Runs : Started(r) ~> Terminal(r)
    /\ [](\A r \in Runs :
            /\ ~(Raised(r) /\ Returned(r))
            /\ Raised(r) => run[r].err # NoExc
            /\ Returned(r) => run[r].err = NoExc)
    /\ [][\A r \in Runs :
            Terminal(r) => /\ run'[r] = run[r]
                           /\ ExternalCalls(r)' = ExternalCalls(r)]_vars

\* A run has returned after its four calls, the last of them reported failed
C16_Witness ==
    \E r \in Runs :
        /\ Returned(r)
        /\ Len(ExternalCalls(r)) = 4
        /\ run[r].write_fullchain = "failed"


----------------------------------------------------------------------------
\* What is left of a user-id file's content once surrounding whitespace is
\* stripped, for the contents of the model
StrippedContent(content) ==
    CASE content = " 6f1c-user-id\n" -> "6f1c-user-id"
      [] content = "0a77-user-id" -> "0a77-user-id"

\* The credential of the file at an absolute path: absent when it is no file
CredentialAt(path) ==
    IF path \in DOMAIN id_files THEN StrippedContent(id_files[path]) ELSE NoneStr

(* C17: the credential passed to authenticate is the one loaded from       *)
(* vault_user_id_file when that key is set, and the one loaded from the    *)
(* default location only when it is not. Loading yields absent, not an     *)
(* error, when the path is no existing file, and authenticate is then      *)
(* still called, exactly once, with the absent credential: the run does    *)
(* not abort before the call.                                              *)
C17_CredentialPassedToAuthenticate ==
    \A r \in Runs :
        LET auth == CallsBy(r, "authenticate")
        IN  /\ \A i \in 1..Len(auth) :
                   auth[i].args[3] =
                       IF "vault_user_id_file" \in DOMAIN run[r].config
                       THEN CredentialAt("/etc/salt/vault-id")
                       ELSE CredentialAt("/root/.vault-id")
            /\ CsrValid(r) /\ run[r].config # NoneDict /\ Rank(run[r].pc) >= 3 =>
                   Len(auth) = 1

\* The configured file does not exist while the default one does, and
\* authenticate was called with the absent credential
C17_Witness ==
    \E r \in Runs :
        /\ "vault_user_id_file" \in DOMAIN run[r].config
        /\ "/etc/salt/vault-id" \notin DOMAIN id_files
        /\ "/root/.vault-id" \in DOMAIN id_files
        /\ Len(CallsBy(r, "authenticate")) = 1
        /\ CallsBy(r, "authenticate")[1].args[3] = NoneStr


----------------------------------------------------------------------------
(* C18: whenever a signing request has been submitted, the common_name and *)
(* the alt_names of its payload equal the single Common Name of the CSR    *)
(* carried in the same payload; no request is submitted for a CSR whose    *)
(* Common Name differs from the requested name.                            *)
C18_RequestNameIsCsrName ==
    \A i \in 1..Len(calls) :
        calls[i].op = "submit" =>
            LET payload == calls[i].args[2]
            IN  /\ payload.csr.pem_ok
                /\ Len(payload.csr.common_names) = 1
                /\ payload.common_name = payload.csr.common_names[1]
                /\ payload.alt_names = payload.csr.common_names[1]

\* A request for web2 has been submitted
C18_Witness ==
    \E i \in 1..Len(calls) :
        /\ calls[i].op = "submit"
        /\ calls[i].args[2].csr.common_names = <<"web2.example.com">>

----------------------------------------------------------------------------
\* The configuration of run r is there, and its pki_path is absent or empty
PkiPathUnusable(r) ==
    Started(r) /\ run[r].config # NoneDict /\ ~PkiPathConfigured(r)

(* C19: main applies its checks in the order CSR validation, session       *)
(* establishment, pki_path, signing. With an invalid CSR and pki_path      *)
(* missing the run raises the CSR error (SigningError for a CSR that does  *)
(* not verify) and never ConfigError, with no call made. With a valid CSR  *)
(* and pki_path missing the run raises ConfigError whether the session     *)
(* was established or not, after exactly one authenticate and with no      *)
(* signing request submitted.                                              *)
C19_OrderOfChecks ==
    \A r \in Runs :
        /\ PkiPathUnusable(r) /\ CsrInvalid(r) =>
               /\ run[r].pc \in {"verify", "raised"}
               /\ Len(ExternalCalls(r)) = 0
               /\ Raised(r) => run[r].err.kind # "ConfigError"
               /\ Raised(r) /\ CsrMismatch(r) => run[r].err.kind = "SigningError"
        /\ PkiPathUnusable(r) /\ CsrValid(r) =>
               /\ run[r].pc \in {"verify", "connect", "prepare", "raised"}
               /\ Len(CallsBy(r, "submit")) = 0
               /\ Raised(r) =>
                      /\ run[r].err.kind = "ConfigError"
                      /\ Len(CallsBy(r, "authenticate")) = 1

\* ConfigError was raised after an authentication that failed
C19_Witness ==
    \E r \in Runs :
        /\ Raised(r) /\ CsrValid(r) /\ PkiPathMissing(r)
        /\ SessionFailed(r)
        /\ run[r].err.kind = "ConfigError"

====
